---- MODULE Spec2Model ----
(***************************************************************************)
(* A model of openccm/system_solvers/boundary_and_initial_conditions.py:   *)
(* the piecewise-to-boolean string rewriter, the boundary-condition        *)
(* compiler and the initial-condition loader.                              *)
(*                                                                         *)
(* Python strings are TLA+ strings; Python indices are 0-based and are     *)
(* kept 0-based through Char, Slice and From.  A function that may raise   *)
(* returns a record whose err field names the exception ("" = returned).   *)
(***************************************************************************)
EXTENDS Integers, Sequences, FiniteSets, TLC

VARIABLES
    \* ---- parse_piecewise_heaviside_into_string, called on its own
    rw_pc,          \* "idle" | "ready" | "returned" | "raised"
    rw_ast,         \* the expression the input string was printed from
    rw_in,          \* the argument str_to_parse
    rw_out,         \* the result record of the call
    \* ---- create_boundary_conditions
    bc_pc,          \* "idle" | "lines" | "override" | "generate" | "write" | "done" | "raised"
    bc_err,         \* the exception that ended the run, "" if none
    specie_names,   \* the species registry
    points_per_model,
    t0,
    c0_before,      \* the state array as passed in
    c0,             \* the state array, mutated in place
    bc_lines,       \* the lines of bc_str consumed so far, in order
    anti_duplicate_dict,
    bc_dict,
    bc_dict_for_c0,
    bcs_names_used,
    bc_file_lines,  \* the lines assembled for the generated module
    bc_file,        \* the content of bc_code_gen.py; <<>> while not written
    \* ---- load_initial_conditions
    ic_pc,          \* "idle" | "start" | "lines" | "done" | "raised"
    ic_err,
    ic_names,       \* the species registry given to the loader
    ic_lines,       \* the initial-condition lines consumed so far
    species_without_a_ic,
    ic_c0

rw_vars == <<rw_pc, rw_ast, rw_in, rw_out>>
bc_vars == <<bc_pc, bc_err, specie_names, points_per_model, t0, c0_before, c0,
             bc_lines, anti_duplicate_dict, bc_dict, bc_dict_for_c0,
             bcs_names_used, bc_file_lines, bc_file>>
ic_vars == <<ic_pc, ic_err, ic_names, ic_lines, species_without_a_ic, ic_c0>>
vars == <<rw_vars, bc_vars, ic_vars>>

(***************************************************************************)
(* Python string primitives.                                               *)
(***************************************************************************)
Char(s, i) == SubSeq(s, i + 1, i + 1)                 \* s[i]
Slice(s, a, b) ==                                     \* s[a:b], 0 <= a, 0 <= b
    LET e == IF b > Len(s) THEN Len(s) ELSE b
    IN  IF a >= e THEN "" ELSE SubSeq(s, a + 1, e)
From(s, a) == IF a >= Len(s) THEN "" ELSE SubSeq(s, a + 1, Len(s))   \* s[a:]
Count(s, ch) == Cardinality({i \in 0..(Len(s) - 1) : Char(s, i) = ch})  \* s.count(ch)
SetMin(S) == CHOOSE m \in S : \A n \in S : m <= n
SetMax(S) == CHOOSE m \in S : \A n \in S : m >= n

\* s.index(pat), -1 when pat does not occur in s
Index(s, pat) ==
    LET hits == {i \in 0..(Len(s) - Len(pat)) : Slice(s, i, i + Len(pat)) = pat}
    IN  IF hits = {} THEN -1 ELSE SetMin(hits)

Contains(s, pat) == Index(s, pat) # -1                \* pat in s

RECURSIVE RemoveSpaces(_)
RemoveSpaces(s) ==                                    \* s.replace(" ", "")
    IF Len(s) = 0 THEN ""
    ELSE IF Len(s) = 1 THEN (IF s = " " THEN "" ELSE s)
    ELSE RemoveSpaces(Slice(s, 0, Len(s) \div 2)) \o RemoveSpaces(From(s, Len(s) \div 2))

RECURSIVE Join(_, _)
Join(parts, sep) ==                                   \* sep.join(parts)
    IF Len(parts) = 0 THEN ""
    ELSE IF Len(parts) = 1 THEN parts[1]
    ELSE parts[1] \o sep \o Join(Tail(parts), sep)

Marker == "Piecewise"

Returned(v) == [err |-> "", val |-> v]
Raised(e) == [err |-> e, val |-> ""]
NoResult == [err |-> "not called", val |-> ""]

(***************************************************************************)
(* _get_end_of_first_term                                                  *)
(***************************************************************************)
\* lines 337-346: the loop over i, stepping from one parenthesis to the next
RECURSIVE ScanParens(_, _, _)
ScanParens(s, i, depth) ==
    LET parens == {j \in i..(Len(s) - 1) : Char(s, j) \in {"(", ")"}} IN
    IF parens = {} THEN -1
    ELSE LET j == SetMin(parens) IN
         IF Char(s, j) = "(" THEN ScanParens(s, j + 1, depth + 1)
         ELSE IF depth - 1 = 0 THEN j
         ELSE ScanParens(s, j + 1, depth - 1)

BalancedCounts(s) == Count(s, "(") = Count(s, ")")

get_end_of_first_term(s) ==
    IF Len(s) < 2 THEN [err |-> "AssertionError", idx |-> -1]
    ELSE IF ~BalancedCounts(s) THEN [err |-> "AssertionError", idx |-> -1]
    ELSE IF Char(s, 0) # "(" THEN [err |-> "AssertionError", idx |-> -1]
    ELSE LET i == ScanParens(s, 1, 1)
         IN  IF i = -1 THEN [err |-> "ValueError", idx |-> -1]
             ELSE [err |-> "", idx |-> i]

(***************************************************************************)
(* parse_piecewise_heaviside_into_string                                   *)
(***************************************************************************)
\* the comma of a term "expression,condition" that leaves both sides balanced
SplitCommas(term) ==
    {idx \in 0..(Len(term) - 1) :
        /\ Char(term, idx) = ","
        /\ BalancedCounts(Slice(term, 0, idx))
        /\ BalancedCounts(From(term, idx + 1))}

TrueIdxs(pieces) == {i \in 1..Len(pieces) : pieces[i][2] = "(True)"}

RECURSIVE ConditionsForTrue(_)
ConditionsForTrue(pieces) ==
    IF Len(pieces) = 0 THEN <<>>
    ELSE IF pieces[1][2] = "(True)" THEN ConditionsForTrue(Tail(pieces))
    ELSE <<pieces[1][2]>> \o ConditionsForTrue(Tail(pieces))

CountTrueOkAtLeastOne(count_true) == count_true >= 1
CountTrueOk(count_true) == count_true = 1

NegatedGuard(conditions_for_true) ==
    "(not (" \o Join(conditions_for_true, " | ") \o "))"

\* lines 306-317: the catch-all guard and the emitted sum of products
EmitPieces(pieces) ==
    IF ~CountTrueOk(Cardinality(TrueIdxs(pieces))) THEN Raised("AssertionError")
    ELSE LET idx_True == SetMax(TrueIdxs(pieces))
             fixed == [i \in 1..Len(pieces) |->
                          IF i = idx_True
                          THEN <<pieces[i][1], NegatedGuard(ConditionsForTrue(pieces))>>
                          ELSE pieces[i]]
             prods == [i \in 1..Len(pieces) |-> fixed[i][1] \o "*" \o fixed[i][2]]
         IN  Returned("(" \o Join(prods, " + ") \o ")")

StripInputNot(s) == s
StripInput(s) == RemoveSpaces(s)

RECURSIVE parse_piecewise_heaviside_into_string(_)
RECURSIVE RewriteLoop(_, _)
RECURSIVE ParsePieces(_, _)

\* lines 281-304: the (expression, condition) pairs of one conditional
ParsePieces(piecewise, pieces) ==
    IF Len(piecewise) = 0 THEN [err |-> "", pieces |-> pieces]
    ELSE
    LET r == get_end_of_first_term(piecewise) IN
    IF r.err # "" THEN [err |-> r.err, pieces |-> <<>>]
    ELSE
    LET term == Slice(piecewise, 1, r.idx)
        after == From(piecewise, r.idx + 1)
    IN
    IF Len(after) > 0 /\ Char(after, 0) # "," THEN [err |-> "ValueError", pieces |-> <<>>]
    ELSE IF Count(term, ",") = 0 THEN [err |-> "AssertionError", pieces |-> <<>>]
    ELSE IF SplitCommas(term) = {} THEN [err |-> "ValueError", pieces |-> <<>>]
    ELSE
    LET idx == SetMin(SplitCommas(term))
        expression == Slice(term, 0, idx)
        condition == "(" \o From(term, idx + 1) \o ")"
    IN
    IF Contains(expression, Marker)
    THEN LET sub == parse_piecewise_heaviside_into_string(expression)
         IN  IF sub.err # "" THEN [err |-> sub.err, pieces |-> <<>>]
             ELSE ParsePieces(From(after, 1), Append(pieces, <<sub.val, condition>>))
    ELSE ParsePieces(From(after, 1),
                     Append(pieces, <<"(" \o expression \o ")", condition>>))

\* lines 267-319: one pass of the while loop per conditional of this level
RewriteLoop(str_to_parse, new_str_fragments) ==
    IF Len(str_to_parse) = 0 THEN Returned(new_str_fragments)
    ELSE IF ~Contains(str_to_parse, Marker)
         THEN Returned(new_str_fragments \o str_to_parse)
    ELSE
    LET i_func == Index(str_to_parse, Marker)
        str_left == Slice(str_to_parse, 0, i_func)
        str_right == From(str_to_parse, i_func + Len(Marker))
        r == get_end_of_first_term(str_right)
    IN
    IF r.err # "" THEN Raised(r.err)
    ELSE
    LET ps == ParsePieces(Slice(str_right, 1, r.idx), <<>>) IN
    IF ps.err # "" THEN Raised(ps.err)
    ELSE
    LET em == EmitPieces(ps.pieces) IN
    IF em.err # "" THEN em
    ELSE RewriteLoop(From(str_right, r.idx + 1),
                     new_str_fragments \o str_left \o em.val)

parse_piecewise_heaviside_into_string(str_in) ==
    LET str_to_parse == StripInput(str_in) IN
    IF Len(str_to_parse) = 0 THEN Raised("AssertionError")
    ELSE IF ~Contains(str_to_parse, Marker) THEN Returned(str_to_parse)
    ELSE RewriteLoop(str_to_parse, "")

(***************************************************************************)
(* Expressions as sympy holds them, and str() of one.  An expression is a  *)
(* record [k, n, s, kids, gs]: a number n, the symbol s, a sum or product  *)
(* of kids, a call of s on kids[1], or a Piecewise whose i-th pair is      *)
(* (kids[i], gs[i]).  A guard is a record [k, n, kids].                    *)
(***************************************************************************)
Num(n) == [k |-> "num", n |-> n, s |-> "", kids |-> <<>>, gs |-> <<>>]
Sym(s) == [k |-> "sym", n |-> 0, s |-> s, kids |-> <<>>, gs |-> <<>>]
Add(a, b) == [k |-> "add", n |-> 0, s |-> "", kids |-> <<a, b>>, gs |-> <<>>]
Mul(a, b) == [k |-> "mul", n |-> 0, s |-> "", kids |-> <<a, b>>, gs |-> <<>>]
Call(f, a) == [k |-> "call", n |-> 0, s |-> f, kids |-> <<a>>, gs |-> <<>>]
PW(es, gs) == [k |-> "pw", n |-> 0, s |-> "", kids |-> es, gs |-> gs]
T == Sym("t")

Lt(n) == [k |-> "lt", n |-> n, kids |-> <<>>]       \* t < n
Gt(n) == [k |-> "gt", n |-> n, kids |-> <<>>]       \* t > n
Otherwise == [k |-> "true", n |-> 0, kids |-> <<>>] \* True
Or(a, b) == [k |-> "or", n |-> 0, kids |-> <<a, b>>]

Digits == <<"0", "1", "2", "3", "4", "5", "6", "7", "8", "9">>

RECURSIVE NumStr(_)
NumStr(n) == IF n < 10 THEN Digits[n + 1] ELSE NumStr(n \div 10) \o Digits[(n % 10) + 1]

RECURSIVE GuardStr(_)
GuardStr(g) ==
    IF g.k = "lt" THEN "t < " \o NumStr(g.n)
    ELSE IF g.k = "gt" THEN "t > " \o NumStr(g.n)
    ELSE IF g.k = "true" THEN "True"
    ELSE "(" \o GuardStr(g.kids[1]) \o ") | (" \o GuardStr(g.kids[2]) \o ")"

RECURSIVE Str(_)
Str(e) ==
    IF e.k = "num" THEN NumStr(e.n)
    ELSE IF e.k = "sym" THEN e.s
    ELSE IF e.k = "add" THEN Str(e.kids[1]) \o " + " \o Str(e.kids[2])
    ELSE IF e.k = "mul"
         THEN LET Factor(x) == IF x.k = "add" THEN "(" \o Str(x) \o ")" ELSE Str(x)
              IN  Factor(e.kids[1]) \o "*" \o Factor(e.kids[2])
    ELSE IF e.k = "call" THEN e.s \o "(" \o Str(e.kids[1]) \o ")"
    ELSE "Piecewise("
         \o Join([i \in 1..Len(e.kids) |->
                    "(" \o Str(e.kids[i]) \o ", " \o GuardStr(e.gs[i]) \o ")"], ", ")
         \o ")"

RECURSIVE GuardHolds(_, _)
GuardHolds(g, t) ==
    IF g.k = "lt" THEN t < g.n
    ELSE IF g.k = "gt" THEN t > g.n
    ELSE IF g.k = "true" THEN TRUE
    ELSE GuardHolds(g.kids[1], t) \/ GuardHolds(g.kids[2], t)

\* The value of an expression at time t; a Piecewise has the value of the
\* pair whose guard holds, the catch-all pair being the one for "otherwise".
RECURSIVE Value(_, _)
Value(e, t) ==
    IF e.k = "num" THEN e.n
    ELSE IF e.k = "sym" THEN t
    ELSE IF e.k = "add" THEN Value(e.kids[1], t) + Value(e.kids[2], t)
    ELSE IF e.k = "mul" THEN Value(e.kids[1], t) * Value(e.kids[2], t)
    ELSE IF e.k = "call" THEN Value(e.kids[1], t)      \* floor of an integer
    ELSE LET hit == {i \in 1..Len(e.kids) : e.gs[i].k # "true" /\ GuardHolds(e.gs[i], t)}
             dflt == {i \in 1..Len(e.kids) : e.gs[i].k = "true"}
         IN  Value(e.kids[SetMin(IF hit # {} THEN hit ELSE dflt)], t)

RECURSIVE HasPiecewise(_)
HasPiecewise(e) == e.k = "pw" \/ \E i \in 1..Len(e.kids) : HasPiecewise(e.kids[i])

\* every conditional, at every level, has exactly one catch-all pair
RECURSIVE OneCatchAllPerLevel(_)
OneCatchAllPerLevel(e) ==
    /\ e.k = "pw" => Cardinality({i \in 1..Len(e.gs) : e.gs[i].k = "true"}) = 1
    /\ \A i \in 1..Len(e.kids) : OneCatchAllPerLevel(e.kids[i])

(***************************************************************************)
(* The value Python gives a rewritten string at time t: the grammar of     *)
(* Python expressions restricted to the tokens the rewriter emits, with    *)
(* Python's precedences  not < comparison < | < + < *  and booleans        *)
(* counting as 0 and 1.  A result is [p, v]: the index after the part      *)
(* read (-1 when it is not an expression) and its value.                   *)
(***************************************************************************)
NoParse == [p |-> -1, v |-> 0]

RECURSIVE BitOr(_, _)
BitOr(a, b) ==
    IF a = 0 THEN b ELSE IF b = 0 THEN a
    ELSE 2 * BitOr(a \div 2, b \div 2) + (IF (a % 2) + (b % 2) > 0 THEN 1 ELSE 0)

DigitOf(ch) == IF \E d \in 0..9 : Digits[d + 1] = ch
               THEN CHOOSE d \in 0..9 : Digits[d + 1] = ch ELSE -1

RECURSIVE PyNumber(_, _, _)
PyNumber(s, p, acc) ==
    IF p < Len(s) /\ DigitOf(Char(s, p)) # -1
    THEN PyNumber(s, p + 1, 10 * acc + DigitOf(Char(s, p)))
    ELSE [p |-> p, v |-> acc]

RECURSIVE PyNotTest(_, _, _)
RECURSIVE PyComparison(_, _, _)
RECURSIVE PyOrExpr(_, _, _)
RECURSIVE PyOrRest(_, _, _)
RECURSIVE PyArith(_, _, _)
RECURSIVE PyArithRest(_, _, _)
RECURSIVE PyTerm(_, _, _)
RECURSIVE PyTermRest(_, _, _)
RECURSIVE PyAtom(_, _, _)

PyAtom(s, p, t) ==
    IF p >= Len(s) THEN NoParse
    ELSE IF DigitOf(Char(s, p)) # -1 THEN PyNumber(s, p, 0)
    ELSE IF Char(s, p) = "t" THEN [p |-> p + 1, v |-> t]
    ELSE IF Slice(s, p, p + 6) = "floor("
         THEN LET r == PyNotTest(s, p + 6, t)
              IN  IF r.p = -1 \/ r.p >= Len(s) \/ Char(s, r.p) # ")" THEN NoParse
                  ELSE [p |-> r.p + 1, v |-> r.v]
    ELSE IF Char(s, p) = "("
         THEN IF Slice(s, p, p + 2) = "()" THEN [p |-> p + 2, v |-> 0]  \* the empty tuple, falsy
              ELSE LET r == PyNotTest(s, p + 1, t)
                   IN  IF r.p = -1 \/ r.p >= Len(s) \/ Char(s, r.p) # ")" THEN NoParse
                       ELSE [p |-> r.p + 1, v |-> r.v]
    ELSE NoParse

PyTermRest(s, l, t) ==
    IF l.p = -1 THEN NoParse
    ELSE IF l.p < Len(s) /\ Char(s, l.p) = "*"
         THEN LET r == PyAtom(s, l.p + 1, t)
              IN  PyTermRest(s, [p |-> r.p, v |-> l.v * r.v], t)
    ELSE l
PyTerm(s, p, t) == PyTermRest(s, PyAtom(s, p, t), t)

PyArithRest(s, l, t) ==
    IF l.p = -1 THEN NoParse
    ELSE IF l.p < Len(s) /\ Char(s, l.p) = "+"
         THEN LET r == PyTerm(s, l.p + 1, t)
              IN  PyArithRest(s, [p |-> r.p, v |-> l.v + r.v], t)
    ELSE l
PyArith(s, p, t) == PyArithRest(s, PyTerm(s, p, t), t)

PyOrRest(s, l, t) ==
    IF l.p = -1 THEN NoParse
    ELSE IF l.p < Len(s) /\ Char(s, l.p) = "|"
         THEN LET r == PyArith(s, l.p + 1, t)
              IN  PyOrRest(s, [p |-> r.p, v |-> BitOr(l.v, r.v)], t)
    ELSE l
PyOrExpr(s, p, t) == PyOrRest(s, PyArith(s, p, t), t)

PyComparison(s, p, t) ==
    LET l == PyOrExpr(s, p, t) IN
    IF l.p = -1 THEN NoParse
    ELSE IF l.p < Len(s) /\ Char(s, l.p) \in {"<", ">"}
         THEN LET r == PyOrExpr(s, l.p + 1, t)
              IN  IF r.p = -1 THEN NoParse
                  ELSE [p |-> r.p,
                        v |-> IF (IF Char(s, l.p) = "<" THEN l.v < r.v ELSE l.v > r.v)
                              THEN 1 ELSE 0]
    ELSE l

PyNotTest(s, p, t) ==
    IF Slice(s, p, p + 3) = "not"
    THEN LET r == PyNotTest(s, p + 3, t)
         IN  IF r.p = -1 THEN NoParse ELSE [p |-> r.p, v |-> IF r.v = 0 THEN 1 ELSE 0]
    ELSE PyComparison(s, p, t)

\* eval(code) with t bound; -1000 when code is not such an expression
PyEval(code, t) ==
    LET s == RemoveSpaces(code)
        r == PyNotTest(s, 0, t)
    IN  IF r.p = Len(s) THEN r.v ELSE -1000

(***************************************************************************)
(* The inputs of the rewriter: expressions printed by str(), built level   *)
(* by level, and a few strings that are not the print of an expression.    *)
(***************************************************************************)
MaxNest == 2        \* deepest nesting of conditionals in an input
MaxTime == 3        \* times 0..MaxTime are sampled

Times == 0..MaxTime

NoExpr == [k |-> "none", n |-> 0, s |-> "", kids |-> <<>>, gs |-> <<>>]

Leaves == {Num(1), T}

\* the conditionals with e as one branch expression
Shapes(e) ==
    { PW(<<e, Num(7)>>, <<Lt(2), Otherwise>>),
      PW(<<Num(0), e>>, <<Or(Gt(2), Lt(1)), Otherwise>>),
      PW(<<e, Num(5)>>, <<Otherwise, Gt(1)>>),
      PW(<<Num(0), e, Num(3)>>, <<Lt(1), Gt(2), Otherwise>>),
      PW(<<e, Num(2)>>, <<Lt(1), Gt(2)>>),
      PW(<<e, Num(2)>>, <<Otherwise, Otherwise>>) }

Scaled(c) == Add(Mul(Num(2), c), Num(5))              \* 2*Piecewise(...) + 5

RECURSIVE Conds(_)
RECURSIVE Kids(_)
Kids(k) == IF k = 0 THEN Leaves ELSE Conds(k) \cup {Scaled(c) : c \in Conds(k)}
Conds(k) == UNION {Shapes(e) : e \in Kids(k - 1)}

\* where a conditional c stands in the surrounding expression
Placed(c) ==
    { c,
      Mul(Num(2), c),
      Scaled(c),
      Add(c, PW(<<Num(1), T>>, <<Lt(1), Otherwise>>)),  \* two side by side
      Call("floor", c),                                  \* a function-call argument
      Mul(T, Add(c, Num(1))) }                           \* t*(Piecewise(...) + 1)

PlainExprs == { Num(1), T, Add(Mul(Num(2), T), Num(5)), Mul(T, Add(T, Num(1))),
                Call("floor", T) }

InputExprs == PlainExprs \cup UNION {Placed(c) : c \in UNION {Conds(k) : k \in 1..MaxNest}}

RawInputs == { " ", "t+1", "  2*t", "Piece wise((1, t < 1), (2, True))", "Piecewise",
               "Piecewise()", "Piecewise((1))", "Piecewise((1, t < 1)(2, True))" }

\* at no sampled time do two guards of one level hold together
RECURSIVE ExclusiveGuards(_)
ExclusiveGuards(e) ==
    /\ e.k = "pw" =>
         \A t \in Times :
            Cardinality({i \in 1..Len(e.gs) :
                            e.gs[i].k # "true" /\ GuardHolds(e.gs[i], t)}) <= 1
    /\ \A i \in 1..Len(e.kids) : ExclusiveGuards(e.kids[i])

WellFormed(e) == e # NoExpr /\ OneCatchAllPerLevel(e) /\ ExclusiveGuards(e)

\* the call returns a string
RwReturn ==
    /\ rw_pc = "ready"
    /\ parse_piecewise_heaviside_into_string(rw_in).err = ""
    /\ rw_out' = parse_piecewise_heaviside_into_string(rw_in)
    /\ rw_pc' = "returned"
    /\ UNCHANGED <<rw_ast, rw_in, bc_vars, ic_vars>>

\* the call raises
RwRaise ==
    /\ rw_pc = "ready"
    /\ parse_piecewise_heaviside_into_string(rw_in).err # ""
    /\ rw_out' = parse_piecewise_heaviside_into_string(rw_in)
    /\ rw_pc' = "raised"
    /\ UNCHANGED <<rw_ast, rw_in, bc_vars, ic_vars>>

(***************************************************************************)
(* create_boundary_conditions: its collaborators and inputs.               *)
(***************************************************************************)
MaxLines == 2       \* lines of boundary_conditions text per run
MaxPoints == 2      \* points_per_model ranges over 1..MaxPoints
NumNodes == 3       \* length of the node axis of c0

\* grouped_bcs: the registry of boundary names, their ids and the no-flux names
no_flux_names == {"wall"}
id(bc_name) ==
    CASE bc_name = "feed" -> 0 [] bc_name = "inlet" -> 1 [] bc_name = "feed_A" -> 3
    [] OTHER -> 2
BcIds == {0, 1, 2, 3}

\* the node indices and flow weights handed in for each boundary id: the two
\* inlets share node 1, and "feed" reaches node 1 through two connections
points_for_bc(bc_id) == CASE bc_id = 0 -> <<1, 1>> [] bc_id = 1 -> <<0, 1>> [] OTHER -> <<2>>
Q_weights(bc_id) == CASE bc_id = 0 -> <<5, 7>> [] bc_id = 1 -> <<2, 3>> [] OTHER -> <<1>>

Registries == {<<"A", "B">>, <<"A_B", "B">>}
StartTimes == {0, 2}

\* one line "specie : bc_name -> eqn" of the boundary_conditions text
\* names may hold the underscore: "feed_A" is a boundary, "A_B" a species
LineSpecies == {"A", "B", "C", "A_B"}
LineBoundaries == {"inlet", "feed", "wall", "feed_A"}
Ramp == PW(<<Num(0), T>>, <<Lt(1), Otherwise>>)
LineEqns ==
    { Num(2),                                   \* a constant
      Mul(Num(3), T),
      Ramp,
      Sym("x"),                                 \* a spatial coordinate
      Mul(Sym("k"), T),                         \* another free variable
      PW(<<T, Num(2)>>, <<Lt(1), Gt(2)>>),      \* no catch-all pair
      Add(Mul(Num(2), Ramp), Num(1)) }          \* a conditional in a sum
BcLines == [specie : LineSpecies, bc_name : LineBoundaries, eqn : LineEqns]

InSeq(x, seq) == \E i \in 1..Len(seq) : seq[i] = x
IndexOf(seq, x) == SetMin({i \in 1..Len(seq) : seq[i] = x}) - 1    \* seq.index(x)

(***************************************************************************)
(* sympy: free symbols and the derivative with respect to t.               *)
(***************************************************************************)
RECURSIVE free_symbols(_)
free_symbols(e) ==
    IF e.k = "sym" THEN {e.s}
    ELSE UNION {free_symbols(e.kids[i]) : i \in 1..Len(e.kids)}
         \cup (IF e.k = "pw" /\ \E i \in 1..Len(e.gs) : e.gs[i].k # "true"
               THEN {"t"} ELSE {})

SAdd(a, b) == IF a = Num(0) THEN b ELSE IF b = Num(0) THEN a
              ELSE IF a.k = "num" /\ b.k = "num" THEN Num(a.n + b.n) ELSE Add(a, b)
SMul(a, b) == IF a = Num(0) \/ b = Num(0) THEN Num(0)
              ELSE IF a = Num(1) THEN b ELSE IF b = Num(1) THEN a
              ELSE IF a.k = "num" /\ b.k = "num" THEN Num(a.n * b.n) ELSE Mul(a, b)

RECURSIVE Diff(_)
Diff(e) ==
    IF e.k = "num" THEN Num(0)
    ELSE IF e.k = "sym" THEN (IF e.s = "t" THEN Num(1) ELSE Num(0))
    ELSE IF e.k = "add" THEN SAdd(Diff(e.kids[1]), Diff(e.kids[2]))
    ELSE IF e.k = "mul" THEN SAdd(SMul(Diff(e.kids[1]), e.kids[2]),
                                  SMul(e.kids[1], Diff(e.kids[2])))
    ELSE IF e.k = "call" THEN Num(0)
    ELSE LET ds == [i \in 1..Len(e.kids) |-> Diff(e.kids[i])]
         IN  IF (\E i \in 1..Len(e.gs) : e.gs[i].k = "true")
                /\ \A i \in 1..Len(ds) : ds[i] = ds[1]
             THEN ds[1]
             ELSE PW(ds, e.gs)

(***************************************************************************)
(* Text of the generated module.                                           *)
(***************************************************************************)
ListStr(xs) == "[" \o Join([i \in 1..Len(xs) |-> NumStr(xs[i])], ", ") \o "]"  \* str(list)

BC_TEMPLATE(name, body) ==
    "@njit(inline='always', cache=True)\n" \o "def " \o name \o "(t):\n"
    \o "    return " \o body \o "\n"

FileHeader ==
    << "from math import *\n",
       "from numba import njit\n",
       "from numpy import array, ndarray\n",
       "\nimport numpy as np\n",
       "\n" >>

AsciiOrder == "0123456789ABCDEFGHIJKLMNOPQRSTUVWXYZ_abcdefghijklmnopqrstuvwxyz"

RECURSIVE StrLess(_, _)
StrLess(a, b) ==                                       \* a < b on Python strings
    IF Len(b) = 0 THEN FALSE
    ELSE IF Len(a) = 0 THEN TRUE
    ELSE IF Char(a, 0) = Char(b, 0) THEN StrLess(From(a, 1), From(b, 1))
    ELSE Index(AsciiOrder, Char(a, 0)) < Index(AsciiOrder, Char(b, 0))

RECURSIVE Descending(_)
Descending(names) ==
    IF names = {} THEN <<>>
    ELSE LET m == CHOOSE m \in names : \A n \in names : n = m \/ StrLess(n, m)
         IN  <<m>> \o Descending(names \ {m})

RECURSIVE sorted(_)
sorted(names) ==
    IF names = {} THEN <<>>
    ELSE LET m == CHOOSE m \in names : \A n \in names : n = m \/ StrLess(m, n)
         IN  <<m>> \o sorted(names \ {m})

\* the concatenation of the sequences f[1], ..., f[n]
RECURSIVE Flatten(_)
Flatten(f) == IF Len(f) = 0 THEN <<>> ELSE f[1] \o Flatten(Tail(f))

(***************************************************************************)
(* create_boundary_conditions                                              *)
(***************************************************************************)
spatial_coords == {"x", "y", "z"}

need_time_deriv_always(ppm) == ppm >= 1
need_time_deriv_version(ppm) == ppm > 1                   \* line 87

IsDuplicateNever(specie, seen) == FALSE
IsDuplicate(specie, seen) == InSeq(specie, seen)          \* line 125

\* line 147: c0[row, points] = 0
ZeroAt(row, pts) ==
    [n \in DOMAIN row |-> IF \E i \in 1..Len(pts) : pts[i] = n THEN 0 ELSE row[n]]

\* row[pts] += vals, which numpy buffers: a repeated index is added to once
AddBuffered(row, pts, vals) ==
    [n \in DOMAIN row |->
        IF \E i \in 1..Len(pts) : pts[i] = n
        THEN row[n] + vals[SetMax({i \in 1..Len(pts) : pts[i] = n})]
        ELSE row[n]]

\* line 153: np.add.at(row, pts, vals)
RECURSIVE AddAt(_, _, _)
AddAt(row, pts, vals) ==
    IF Len(pts) = 0 THEN row
    ELSE AddAt([row EXCEPT ![pts[1]] = @ + vals[1]], Tail(pts), Tail(vals))

Scale(ws, v) == [i \in 1..Len(ws) |-> ws[i] * v]

\* lines 151-153 over the entries <<bc_id, specie, bc_eqn>> of bc_dict_for_c0
RECURSIVE ApplyOverrides(_, _, _, _)
ApplyOverrides(c, entries, names, start) ==
    IF Len(entries) = 0 THEN c
    ELSE LET bc_id == entries[1][1]
             row == IndexOf(names, entries[1][2])
             v == Value(entries[1][3], start)
         IN  ApplyOverrides(
                 [c EXCEPT ![row] = AddAt(@, points_for_bc(bc_id), Scale(Q_weights(bc_id), v))],
                 Tail(entries), names, start)

EmptyDict == [i \in BcIds |-> <<>>]

\* lines 115-136: the exception the checks of one line raise, "" if none
LineDefect(line, names, seen) ==
    LET args == free_symbols(line.eqn) IN
    IF ~InSeq(line.specie, names) THEN "UnknownSpecie"
    ELSE IF line.bc_name \in no_flux_names THEN "NoFluxBC"
    ELSE IF IsDuplicate(line.specie, seen[id(line.bc_name)]) THEN "MultipleBCs"
    ELSE IF spatial_coords \cap args # {} THEN "SpatialCoordinate"
    ELSE IF args # {"t"} /\ Cardinality(args) # 0 THEN "OtherVariable"
    ELSE ""

\* lines 139-143: the string stored for a line, or the rewriter's exception
StoredEqn(bc_eqn, ppm) ==
    parse_piecewise_heaviside_into_string(
        Str(IF need_time_deriv_version(ppm) THEN Diff(bc_eqn) ELSE bc_eqn))

AfterErrorContinue(err) == "lines"
AfterError(err) == "raised"                               \* an exception ends the run

\* lines 114-147: one pass of the loop over the lines of bc_str
BcLine(line) ==
    /\ bc_pc = "lines"
    /\ Len(bc_lines) < MaxLines
    /\ LET specie == line.specie
           bc_name == line.bc_name
           bc_id == id(bc_name)
           defect == LineDefect(line, specie_names, anti_duplicate_dict)
           stored == StoredEqn(line.eqn, points_per_model)
           err == IF defect # "" THEN defect ELSE stored.err
           deriv == need_time_deriv_version(points_per_model)
       IN  /\ bc_lines' = Append(bc_lines, line)
           /\ bc_err' = err
           /\ bc_pc' = IF err = "" THEN "lines" ELSE AfterError(err)
           /\ bcs_names_used' = IF defect = "UnknownSpecie" THEN bcs_names_used
                                ELSE bcs_names_used \cup {bc_name}
           /\ anti_duplicate_dict' =
                 IF defect \in {"UnknownSpecie", "NoFluxBC", "MultipleBCs"}
                 THEN anti_duplicate_dict
                 ELSE [anti_duplicate_dict EXCEPT ![bc_id] = Append(@, specie)]
           /\ bc_dict' = IF err = "" THEN [bc_dict EXCEPT ![bc_id] = Append(@, <<specie, stored.val>>)]
                         ELSE bc_dict
           /\ bc_dict_for_c0' =
                 IF err = "" /\ deriv
                 THEN [bc_dict_for_c0 EXCEPT ![bc_id] = Append(@, <<specie, line.eqn>>)]
                 ELSE bc_dict_for_c0
           /\ c0' = IF err = "" /\ deriv
                    THEN [c0 EXCEPT ![IndexOf(specie_names, specie)] =
                                        ZeroAt(@, points_for_bc(bc_id))]
                    ELSE c0
    /\ UNCHANGED <<specie_names, points_per_model, t0, c0_before, bc_file_lines, bc_file,
                   rw_vars, ic_vars>>

\* lines 150-153: the end of the text is reached; c0 is overridden for a PFR
BcOverride ==
    /\ bc_pc = "lines"
    /\ bc_pc' = "generate"
    /\ c0' = IF need_time_deriv_version(points_per_model)
             THEN ApplyOverrides(c0,
                      Flatten([b \in 1..Cardinality(BcIds) |->
                                  [j \in 1..Len(bc_dict_for_c0[b - 1]) |->
                                      <<b - 1, bc_dict_for_c0[b - 1][j][1],
                                        bc_dict_for_c0[b - 1][j][2]>>]]),
                      specie_names, t0)
             ELSE c0
    /\ UNCHANGED <<bc_err, specie_names, points_per_model, t0, c0_before, bc_lines,
                   anti_duplicate_dict, bc_dict, bc_dict_for_c0, bcs_names_used,
                   bc_file_lines, bc_file, rw_vars, ic_vars>>

AggregateDef == "def boundary_conditions(t: float, _ddt: ndarray) -> None:\n"

\* line 184
AddStatement(row, bc_name, specie_name) ==
    "    _ddt[" \o NumStr(row) \o ", points_" \o bc_name \o "] += " \o bc_name \o "_"
    \o specie_name \o "(t) * Q_weights_" \o bc_name \o "\n"

\* lines 155-185
BcGenerate ==
    /\ bc_pc = "generate"
    /\ bc_pc' = "write"
    /\ LET used == sorted(bcs_names_used)
           nb == Len(used)
           eqns(b) == bc_dict[id(used[b])]
       IN  bc_file_lines' =
              bc_file_lines
              \o [b \in 1..nb |-> "points_" \o used[b] \o " = array("
                                  \o ListStr(points_for_bc(id(used[b]))) \o ")\n"]
              \o <<"\n">>
              \o [b \in 1..nb |-> "Q_weights_" \o used[b] \o " = array("
                                  \o ListStr(Q_weights(id(used[b]))) \o ")\n"]
              \o <<"\n", "\n">>
              \o Flatten([b \in 1..nb |->
                    Flatten([j \in 1..Len(eqns(b)) |->
                        << BC_TEMPLATE(used[b] \o "_" \o eqns(b)[j][1], eqns(b)[j][2]),
                           "\n\n" >>])])
              \o << "@njit(inline='always')  # Do not cache, _ddt will be a large matrix\n",
                    AggregateDef >>
              \o (IF nb = 0 THEN <<"    pass  # No boundary conditions used">>
                  ELSE Flatten([b \in 1..nb |->
                          [j \in 1..Len(eqns(b)) |->
                              AddStatement(IndexOf(specie_names, eqns(b)[j][1]),
                                           used[b], eqns(b)[j][1])]
                          \o <<"\n">>]))
    /\ UNCHANGED <<bc_err, specie_names, points_per_model, t0, c0_before, c0, bc_lines,
                   anti_duplicate_dict, bc_dict, bc_dict_for_c0, bcs_names_used, bc_file,
                   rw_vars, ic_vars>>

\* lines 188-190
BcWrite ==
    /\ bc_pc = "write"
    /\ bc_pc' = "done"
    /\ bc_file' = Join(bc_file_lines, "")
    /\ UNCHANGED <<bc_err, specie_names, points_per_model, t0, c0_before, c0, bc_lines,
                   anti_duplicate_dict, bc_dict, bc_dict_for_c0, bcs_names_used,
                   bc_file_lines, rw_vars, ic_vars>>

(***************************************************************************)
(* load_initial_conditions                                                 *)
(***************************************************************************)
MaxIcLines == 3     \* lines of initial_conditions text per run

IcRegistries == {<<"A">>, <<"A", "B">>, <<"A", "A">>, <<"B", "A", "C">>}
IcSpecies == {"A", "B", "C", "D"}
IcValues == {4, 6}
IcLines == [specie : IcSpecies, value : IcValues]

Range(seq) == {seq[i] : i \in 1..Len(seq)}

\* lines 211-212
IcStart ==
    /\ ic_pc = "start"
    /\ species_without_a_ic' = Range(ic_names)
    /\ IF Cardinality(Range(ic_names)) = Len(ic_names)
       THEN ic_pc' = "lines" /\ ic_err' = ""
       ELSE ic_pc' = "raised" /\ ic_err' = "AssertionError"
    /\ UNCHANGED <<ic_names, ic_lines, ic_c0, rw_vars, bc_vars>>

RemoveNothing(outstanding, specie) == outstanding
Remove(outstanding, specie) == outstanding \ {specie}     \* line 219

\* lines 215-227: one pass of the loop over the lines of ic_string
IcLine(line) ==
    /\ ic_pc = "lines"
    /\ Len(ic_lines) < MaxIcLines
    /\ ic_lines' = Append(ic_lines, line)
    /\ IF line.specie \in species_without_a_ic
       THEN /\ species_without_a_ic' = Remove(species_without_a_ic, line.specie)
            /\ ic_c0' = [ic_c0 EXCEPT ![IndexOf(ic_names, line.specie)] =
                                         [n \in DOMAIN @ |-> line.value]]
            /\ UNCHANGED <<ic_pc, ic_err>>
       ELSE /\ ic_pc' = "raised"
            /\ ic_err' = IF InSeq(line.specie, ic_names) THEN "MultipleICs"
                         ELSE "UnknownSpecie"
            /\ UNCHANGED <<species_without_a_ic, ic_c0>>
    /\ UNCHANGED <<ic_names, rw_vars, bc_vars>>

\* line 229
IcFinish ==
    /\ ic_pc = "lines"
    /\ IF Cardinality(species_without_a_ic) = 0
       THEN ic_pc' = "done" /\ ic_err' = ""
       ELSE ic_pc' = "raised" /\ ic_err' = "AssertionError"
    /\ UNCHANGED <<ic_names, ic_lines, species_without_a_ic, ic_c0, rw_vars, bc_vars>>

(***************************************************************************)
(* Specifications: each entry point on its own, and all of them.           *)
(***************************************************************************)
\* the rewriter called on a string; the other two entry points are not running
RwInit ==
    /\ rw_pc = "ready"
    /\ \/ rw_ast \in InputExprs /\ rw_in = Str(rw_ast)
       \/ rw_ast = NoExpr /\ rw_in \in RawInputs
    /\ rw_out = NoResult
    /\ bc_pc = "idle" /\ bc_err = "" /\ specie_names = <<>> /\ points_per_model = 1
    /\ t0 = 0 /\ c0_before = <<>> /\ c0 = <<>> /\ bc_lines = <<>>
    /\ anti_duplicate_dict = EmptyDict /\ bc_dict = EmptyDict /\ bc_dict_for_c0 = EmptyDict
    /\ bcs_names_used = {} /\ bc_file_lines = <<>> /\ bc_file = ""
    /\ ic_pc = "idle" /\ ic_err = "" /\ ic_names = <<>> /\ ic_lines = <<>>
    /\ species_without_a_ic = {} /\ ic_c0 = <<>>

\* create_boundary_conditions entered with its arguments
BcInit ==
    /\ rw_pc = "idle" /\ rw_ast = NoExpr /\ rw_in = "" /\ rw_out = NoResult
    /\ bc_pc = "lines"
    /\ bc_err = ""
    /\ specie_names \in Registries
    /\ points_per_model \in 1..MaxPoints
    /\ t0 \in StartTimes
    /\ c0_before = [r \in 0..(Len(specie_names) - 1) |->
                       [n \in 0..(NumNodes - 1) |-> 10 * (r + 1) + n]]
    /\ c0 = c0_before
    /\ bc_lines = <<>>
    /\ anti_duplicate_dict = EmptyDict
    /\ bc_dict = EmptyDict
    /\ bc_dict_for_c0 = EmptyDict
    /\ bcs_names_used = {}
    /\ bc_file_lines = FileHeader
    /\ bc_file = ""
    /\ ic_pc = "idle" /\ ic_err = "" /\ ic_names = <<>> /\ ic_lines = <<>>
    /\ species_without_a_ic = {} /\ ic_c0 = <<>>

\* load_initial_conditions entered with its arguments
IcInit ==
    /\ rw_pc = "idle" /\ rw_ast = NoExpr /\ rw_in = "" /\ rw_out = NoResult
    /\ bc_pc = "idle" /\ bc_err = "" /\ specie_names = <<>> /\ points_per_model = 1
    /\ t0 = 0 /\ c0_before = <<>> /\ c0 = <<>> /\ bc_lines = <<>>
    /\ anti_duplicate_dict = EmptyDict /\ bc_dict = EmptyDict /\ bc_dict_for_c0 = EmptyDict
    /\ bcs_names_used = {} /\ bc_file_lines = <<>> /\ bc_file = ""
    /\ ic_pc = "start"
    /\ ic_err = ""
    /\ ic_names \in IcRegistries
    /\ ic_lines = <<>>
    /\ species_without_a_ic = {}
    /\ ic_c0 = [r \in 0..(Len(ic_names) - 1) |-> [n \in 0..(NumNodes - 1) |-> 0]]

RwNext == RwReturn \/ RwRaise
BcNext == (\E line \in BcLines : BcLine(line)) \/ BcOverride \/ BcGenerate \/ BcWrite
IcNext == IcStart \/ (\E line \in IcLines : IcLine(line)) \/ IcFinish

SpecRewriter == RwInit /\ [][RwNext]_vars
SpecBC == BcInit /\ [][BcNext]_vars
SpecIC == IcInit /\ [][IcNext]_vars

Init == RwInit \/ BcInit \/ IcInit
Next == \/ RwReturn \/ RwRaise
        \/ (\E line \in BcLines : BcLine(line)) \/ BcOverride \/ BcGenerate \/ BcWrite
        \/ IcStart \/ (\E line \in IcLines : IcLine(line)) \/ IcFinish
Spec == Init /\ [][Next]_vars

(***************************************************************************)
(* Properties of parse_piecewise_heaviside_into_string (SpecRewriter).     *)
(***************************************************************************)
RwCalled == rw_pc \in {"returned", "raised"}

\* C1: for a well-formed input (one catch-all pair per level, guards of one
\* level mutually exclusive), the returned string evaluated at any time t,
\* guards counting as 0/1, equals the value of the branch the original
\* conditional selects at t; this covers a branch expression that combines a
\* nested conditional with further arithmetic.
C1_ValuePreserved ==
    (rw_pc = "returned" /\ WellFormed(rw_ast)) =>
        \A t \in Times : PyEval(rw_out.val, t) = Value(rw_ast, t)

\* out is inp with its spaces deleted and nothing else changed
RECURSIVE SameButSpaces(_, _)
SameButSpaces(inp, out) ==
    IF Len(inp) = 0 THEN Len(out) = 0
    ELSE IF Char(inp, 0) = " " THEN SameButSpaces(From(inp, 1), out)
    ELSE Len(out) > 0 /\ Char(out, 0) = Char(inp, 0)
         /\ SameButSpaces(From(inp, 1), From(out, 1))

\* C7 as stated: on a non-empty input without the marker 'Piecewise' the
\* rewriter returns its input, character for character.
C7_IdentityOnPlain ==
    (RwCalled /\ Len(rw_in) > 0 /\ ~Contains(rw_in, Marker)) =>
        (rw_pc = "returned" /\ rw_out.val = rw_in)

\* C7 amended: on an input that, its spaces deleted, is non-empty and holds
\* no marker 'Piecewise', the rewriter returns the input with every space
\* deleted and nothing else changed; so it is the identity on such inputs
\* exactly when they hold no space.
C7_SpacesRemovedOnPlain ==
    (RwCalled /\ Len(RemoveSpaces(rw_in)) > 0 /\ ~Contains(RemoveSpaces(rw_in), Marker)) =>
        /\ rw_pc = "returned"
        /\ SameButSpaces(rw_in, rw_out.val)
        /\ (rw_out.val = rw_in <=> Count(rw_in, " ") = 0)

C7_Witness ==
    /\ rw_pc = "returned"
    /\ ~Contains(RemoveSpaces(rw_in), Marker)
    /\ Count(rw_in, " ") > 0
    /\ rw_out.val # rw_in

\* the conditionals of an expression, at every level
RECURSIVE Conditionals(_)
Conditionals(e) ==
    (IF e.k = "pw" THEN {e} ELSE {})
    \cup UNION {Conditionals(e.kids[i]) : i \in 1..Len(e.kids)}

\* the text "*(not ((g1) | (g2) ...))" that weights the catch-all pair of c
\* by the negation of the disjunction of its sibling guards, preceded by the
\* catch-all expression when that is not itself a conditional
NegatedSiblings(c) ==
    LET others == SelectSeq(c.gs, LAMBDA g : g.k # "true")
        dflt == c.kids[CHOOSE i \in 1..Len(c.gs) : c.gs[i].k = "true"]
    IN  (IF HasPiecewise(dflt) THEN "" ELSE "(" \o RemoveSpaces(Str(dflt)) \o ")")
        \o "*(not ("
        \o Join([i \in 1..Len(others) |-> "(" \o RemoveSpaces(GuardStr(others[i])) \o ")"],
                " | ")
        \o "))"

\* C8: a conditional met at any nesting level with zero or more than one
\* catch-all guard makes the rewriter fail and return no string; with exactly
\* one, at whatever position, the catch-all guard is replaced by the negation
\* of the disjunction of all the sibling guards.
C8_CatchAllCount ==
    /\ (RwCalled /\ rw_ast # NoExpr /\ ~OneCatchAllPerLevel(rw_ast)) =>
            (rw_pc = "raised" /\ rw_out.err = "AssertionError" /\ rw_out.val = "")
    /\ (rw_pc = "returned" /\ rw_ast # NoExpr) =>
            /\ OneCatchAllPerLevel(rw_ast)
            /\ ~Contains(rw_out.val, "True")
            /\ \A c \in Conditionals(rw_ast) : Contains(rw_out.val, NegatedSiblings(c))

\* a returned rewrite of a nested conditional whose catch-all pair comes first
C8_Witness ==
    /\ rw_pc = "returned"
    /\ rw_ast.k = "pw"
    /\ rw_ast.gs[1].k = "true"
    /\ HasPiecewise(rw_ast.kids[1])

\* C10: on an input with balanced parentheses whose conditionals are all
\* well-formed, wherever they stand (top level, side by side, a function-call
\* argument, inside a parenthesized group), the rewriter returns normally and
\* the returned string holds no 'Piecewise'.
C10_ReturnsWithoutMarker ==
    (RwCalled /\ rw_ast # NoExpr /\ OneCatchAllPerLevel(rw_ast)
        /\ Count(rw_in, "(") = Count(rw_in, ")")) =>
        (rw_pc = "returned" /\ ~Contains(rw_out.val, Marker))

(***************************************************************************)
(* Properties of create_boundary_conditions (SpecBC).                      *)
(***************************************************************************)
\* the lines consumed without an exception
AcceptedCount == IF bc_pc = "raised" THEN Len(bc_lines) - 1 ELSE Len(bc_lines)
RejectedLine(i) == bc_pc = "raised" /\ i = Len(bc_lines)

UnknownSpecies(l) == \A r \in 1..Len(specie_names) : specie_names[r] # l.specie
OnNoFlux(l) == l.bc_name \in no_flux_names
GivenEarlier(i) == \E j \in 1..(i - 1) : /\ bc_lines[j].specie = bc_lines[i].specie
                                         /\ bc_lines[j].bc_name = bc_lines[i].bc_name
ForeignVariable(l) == free_symbols(l.eqn) \ {"t"} # {}
FourDefects(i) ==
    \/ UnknownSpecies(bc_lines[i]) \/ OnNoFlux(bc_lines[i])
    \/ GivenEarlier(i) \/ ForeignVariable(bc_lines[i])

\* the rewriter raises on the string of the expression to be stored
RewriterRejects(l) ==
    parse_piecewise_heaviside_into_string(
        Str(IF points_per_model > 1 THEN Diff(l.eqn) ELSE l.eqn)).err # ""

RECURSIVE SeqSum(_)
SeqSum(xs) == IF Len(xs) = 0 THEN 0 ELSE xs[1] + SeqSum(Tail(xs))

\* what line j adds to node n: weight times value at t0, at every position of n
Contribution(j, n) ==
    LET b == id(bc_lines[j].bc_name)
        v == Value(bc_lines[j].eqn, t0)
    IN  SeqSum([i \in 1..Len(points_for_bc(b)) |->
                   IF points_for_bc(b)[i] = n THEN Q_weights(b)[i] * v ELSE 0])

Reaches(j, n) == \E i \in 1..Len(points_for_bc(id(bc_lines[j].bc_name))) :
                    points_for_bc(id(bc_lines[j].bc_name))[i] = n

\* C3: in derivative mode, after a run on valid input, c0[s, n] is, for a node
\* n of some boundary on which s is specified, the sum over those boundaries
\* and over every position of n of weight times the value at t0 of the
\* original expression, the earlier c0[s, n] not contributing; every other
\* entry of c0 is unchanged.
C3_OverrideIsWeightedSum ==
    (bc_pc = "done" /\ points_per_model > 1) =>
        \A r \in 0..(Len(specie_names) - 1), n \in 0..(NumNodes - 1) :
            LET mine == {j \in 1..Len(bc_lines) :
                            bc_lines[j].specie = specie_names[r + 1] /\ Reaches(j, n)}
            IN  c0[r][n] = IF mine = {} THEN c0_before[r][n]
                           ELSE SeqSum([j \in 1..Len(bc_lines) |->
                                    IF j \in mine THEN Contribution(j, n) ELSE 0])

\* one species on the two inlets that share node 1, with non-zero values
C3_Witness ==
    /\ bc_pc = "done" /\ points_per_model > 1
    /\ Len(bc_lines) = 2
    /\ bc_lines[1].specie = bc_lines[2].specie
    /\ bc_lines[1].bc_name = "inlet" /\ bc_lines[2].bc_name = "feed"
    /\ Value(bc_lines[1].eqn, t0) > 0 /\ Value(bc_lines[2].eqn, t0) > 0

\* the boundary names of the consumed lines, ascending
NamesGiven == {bc_lines[j].bc_name : j \in 1..Len(bc_lines)}
Ascending(names) ==
    [k \in 1..Cardinality(names) |->
        CHOOSE b \in names : Cardinality({a \in names : StrLess(a, b)}) = k - 1]

ExpectedStatement(l) ==
    "    _ddt[" \o NumStr(IndexOf(specie_names, l.specie)) \o ", points_" \o l.bc_name
    \o "] += " \o l.bc_name \o "_" \o l.specie \o "(t) * Q_weights_" \o l.bc_name \o "\n"

ExpectedBody ==
    IF Len(bc_lines) = 0 THEN "    pass  # No boundary conditions used"
    ELSE Join([k \in 1..Cardinality(NamesGiven) |->
                 Join([j \in 1..Len(bc_lines) |->
                         IF bc_lines[j].bc_name = Ascending(NamesGiven)[k]
                         THEN ExpectedStatement(bc_lines[j]) ELSE ""], "")
                 \o "\n"], "")

\* the evaluation functions, by boundary ascending and by line within a boundary
ExpectedFunctions ==
    Join([k \in 1..Cardinality(NamesGiven) |->
            Join([j \in 1..Len(bc_lines) |->
                    IF bc_lines[j].bc_name = Ascending(NamesGiven)[k]
                    THEN BC_TEMPLATE(bc_lines[j].bc_name \o "_" \o bc_lines[j].specie,
                                     bc_dict[id(bc_lines[j].bc_name)]
                                            [Cardinality({i \in 1..j :
                                                bc_lines[i].bc_name = bc_lines[j].bc_name})][2])
                         \o "\n\n"
                    ELSE ""], "")], "")

AggregateBody == From(bc_file, Index(bc_file, AggregateDef) + Len(AggregateDef))

\* C5: the body of the generated boundary_conditions holds exactly one add
\* statement per pair (b, s) specified, adding b_s(t) times b's weight array
\* into row index(s) of _ddt at b's index array; statements, index arrays,
\* weight arrays and evaluation functions come by boundary in ascending order
\* of name whatever the order of the lines; with no line the body is a no-op.
C5_AggregateBody ==
    bc_pc = "done" =>
        /\ Contains(bc_file, AggregateDef)
        /\ AggregateBody = ExpectedBody
        /\ Contains(bc_file, "\n\n\n" \o ExpectedFunctions \o "@njit(inline='always')  # Do not")
        /\ \A a \in NamesGiven, b \in NamesGiven :
              StrLess(a, b) =>
                /\ Index(bc_file, "points_" \o a \o " = ") < Index(bc_file, "points_" \o b \o " = ")
                /\ Index(bc_file, "Q_weights_" \o a \o " = ")
                      < Index(bc_file, "Q_weights_" \o b \o " = ")
                /\ Index(bc_file, "points_" \o a \o " = ") # -1
                /\ Index(bc_file, "Q_weights_" \o a \o " = ") # -1

\* two boundaries given in descending order of name
C5_Witness ==
    /\ bc_pc = "done"
    /\ Len(bc_lines) = 2
    /\ bc_lines[1].bc_name = "inlet" /\ bc_lines[2].bc_name = "feed"

\* C6: bc_code_gen.py is written only after every line has been parsed,
\* validated and rewritten without error; a run that a line aborts has
\* written nothing.
C6_WrittenOnlyAfterAllLines ==
    /\ bc_file # "" =>
          /\ bc_pc = "done" /\ bc_err = ""
          /\ \A i \in 1..Len(bc_lines) : ~FourDefects(i) /\ ~RewriterRejects(bc_lines[i])
    /\ bc_pc = "raised" => bc_file = ""

\* a run aborted at its second line by a malformed conditional
C6_Witness ==
    /\ bc_pc = "raised" /\ bc_err = "AssertionError"
    /\ Len(bc_lines) = 2
    /\ bc_file = ""

StoredFor(l) ==
    LET d == bc_dict[id(l.bc_name)]
    IN  {d[j][2] : j \in {j \in 1..Len(d) : d[j][1] = l.specie}}

\* C9: the derivative form is selected exactly when points_per_model > 1; with
\* points_per_model = 1 the rewritten original expression is stored for each
\* (boundary, species) and no entry of c0 changes.
C9_FormByPointsPerModel ==
    /\ \A i \in 1..AcceptedCount :
          StoredFor(bc_lines[i]) =
             { parse_piecewise_heaviside_into_string(
                   Str(IF points_per_model > 1 THEN Diff(bc_lines[i].eqn)
                       ELSE bc_lines[i].eqn)).val }
    /\ points_per_model = 1 => (c0 = c0_before /\ bc_dict_for_c0 = EmptyDict)

\* a CSTR run that stored a conditional whose derivative prints differently
C9_Witness ==
    /\ bc_pc = "done" /\ points_per_model = 1
    /\ \E i \in 1..Len(bc_lines) :
          /\ bc_lines[i].eqn = Ramp
          /\ Str(Diff(Ramp)) # Str(Ramp)
          /\ StoredFor(bc_lines[i]) = {"((0)*(t<1) + (t)*(not ((t<1))))"}

\* the name line 172 gives the evaluation function of a line's pair
FunctionName(l) == l.bc_name \o "_" \o l.specie
DefHeader(name) == "@njit(inline='always', cache=True)\n" \o "def " \o name \o "(t):\n"
\* the positions in the generated text that define the function of that name;
\* on import a later definition of a name replaces an earlier one
DefinitionsOf(name) ==
    {j \in 1..Len(bc_file_lines) :
        Slice(bc_file_lines[j], 0, Len(DefHeader(name))) = DefHeader(name)}
BoundTo(name) == bc_file_lines[SetMax(DefinitionsOf(name))]

\* C11: in the generated module distinct accepted (boundary, species) pairs
\* get distinct evaluation-function names, so the function the aggregate
\* statement of a pair calls is the one defined from the expression stored
\* for that pair and no other pair redefines it, underscores in the names
\* included.
C11_DistinctFunctionPerPair ==
    bc_pc = "done" =>
        \A i \in 1..Len(bc_lines) :
            /\ \A j \in 1..Len(bc_lines) :
                  i # j => FunctionName(bc_lines[i]) # FunctionName(bc_lines[j])
            /\ Contains(AggregateBody, " += " \o FunctionName(bc_lines[i]) \o "(t) * ")
            /\ \A body \in StoredFor(bc_lines[i]) :
                  BoundTo(FunctionName(bc_lines[i]))
                     = BC_TEMPLATE(FunctionName(bc_lines[i]), body)

(***************************************************************************)
(* Properties of load_initial_conditions (SpecIC).                         *)
(***************************************************************************)
IcSpeciesOf(lines) == {lines[j].specie : j \in 1..Len(lines)}
\* every line names a species of the registry that no earlier line names
EachOnceAndKnown(lines) ==
    /\ \A j \in 1..Len(lines) : lines[j].specie \in Range(ic_names)
    /\ \A i \in 1..Len(lines), j \in 1..Len(lines) :
          lines[i].specie = lines[j].specie => i = j
ExactlyTheRegistry(lines) == EachOnceAndKnown(lines) /\ IcSpeciesOf(lines) = Range(ic_names)
Earlier == SubSeq(ic_lines, 1, Len(ic_lines) - 1)

\* C4: for a registry without duplicate names, the loader completes exactly
\* when the lines name the species of the registry, each once; it fails at
\* the first line naming a species already satisfied (duplicate), at the
\* first line naming an unknown species, or at the end when a species is
\* outstanding; and the outstanding set is always the registry minus the
\* species of the lines processed so far.
C4_EachSpeciesExactlyOnce ==
    Cardinality(Range(ic_names)) = Len(ic_names) =>
        /\ ic_pc = "done" => ExactlyTheRegistry(ic_lines)
        /\ ic_pc = "raised" => ~ExactlyTheRegistry(ic_lines)
        /\ ic_pc \in {"lines", "done"} =>
              /\ EachOnceAndKnown(ic_lines)
              /\ species_without_a_ic = Range(ic_names) \ IcSpeciesOf(ic_lines)
        /\ (ic_pc = "raised" /\ ic_err = "MultipleICs") =>
              /\ EachOnceAndKnown(Earlier)
              /\ ic_lines[Len(ic_lines)].specie \in IcSpeciesOf(Earlier)
              /\ species_without_a_ic = Range(ic_names) \ IcSpeciesOf(Earlier)
        /\ (ic_pc = "raised" /\ ic_err = "UnknownSpecie") =>
              /\ EachOnceAndKnown(Earlier)
              /\ ic_lines[Len(ic_lines)].specie \notin Range(ic_names)
              /\ species_without_a_ic = Range(ic_names) \ IcSpeciesOf(Earlier)
        /\ (ic_pc = "raised" /\ ic_err = "AssertionError") =>
              /\ EachOnceAndKnown(ic_lines)
              /\ Range(ic_names) \ IcSpeciesOf(ic_lines) # {}
        /\ ic_pc = "raised" => ic_err \in {"MultipleICs", "UnknownSpecie", "AssertionError"}

\* a completed load whose lines come in another order than the registry
C4_Witness ==
    /\ ic_pc = "done"
    /\ ic_names = <<"A", "B">>
    /\ ic_lines[1].specie = "B"

====
